---------------------------- MODULE Spec2Model ----------------------------
(***************************************************************************)
(* Model of the e-commerce detail-page backend: the Express routes of      *)
(* projects.ts, images.ts, scripts.ts, generate.ts and the d1Client facade *)
(* they call.  The remote database is the state; every route handler is    *)
(* one atomic action that runs the handler's statements in order, records  *)
(* every remote call it issues in a log, and leaves its response in        *)
(* `last'.  Outcomes of remote calls (return, throw) and of the AI model   *)
(* are inputs of the request, chosen nondeterministically.                 *)
(***************************************************************************)
EXTENDS Integers, Sequences, FiniteSets, TLC

(* ------------------------------ bounds -------------------------------- *)
NumUsers == 2
MaxProjects == 1
MaxSections == 2
MaxImages == 2
MaxTexts == 1
MaxFiles == 1
MaxAccounts == 2                 \* rows of the users table
NumRegs == 2                     \* register requests in flight at once

(* ----------------------------- constants ------------------------------ *)
NoUser == 0                      \* req.user is absent
NoVal == "<undefined>"            \* a body field that is absent
Thrown == -1                     \* an exception is propagating to the catch
Running == 0                     \* no response sent yet

StatusChain == <<"uploaded", "scripting", "scripted", "generating", "generated", "completed">>
Labels == {StatusChain[i] : i \in 1..Len(StatusChain)}
InitialStatus_Mut == "scripting"
InitialStatus == "uploaded"
ScriptingStatus_Mut == "scripted"
ScriptingStatus == "scripting"
ScriptedStatus == "scripted"
GeneratingStatus == "generating"
GeneratedStatus == "generated"
RestoredStatus_Mut == "failed"
RestoredStatus == "scripted"
CompletedStatus == "completed"

VARIABLES projects, images, sections, competitorText, last,
          users, regs, auth

vars == <<projects, images, sections, competitorText, last, users, regs, auth>>

\* the state of the project routes, and the state of the auth routes
projectVars == <<projects, images, sections, competitorText, last>>
authVars == <<users, regs, auth>>

(* ------------------------- remote rows (D1) --------------------------- *)
\* A deleted row keeps its slot (ids are never reused): live = FALSE.
NoProject == [live |-> FALSE, user_id |-> 0, status |-> "", product_name |-> ""]
NoImage == [live |-> FALSE, project_id |-> 0, section_id |-> 0, type |-> "", r2_key |-> <<0, "", 0>>]
NoSection == [project_id |-> 0, order_index |-> 0, text |-> ""]
NoArchive == [entries |-> <<>>, script |-> <<>>, hasScript |-> FALSE, finalized |-> FALSE]

DB == [projects |-> projects, images |-> images, sections |-> sections,
       competitorText |-> competitorText]

(* ---------------------- handler execution context --------------------- *)
Start(db) ==
    [db |-> db, code |-> Running, error |-> "", log |-> <<>>, project |-> NoProject,
     retProjects |-> {}, retImages |-> {}, retSections |-> {}, retTexts |-> 0,
     archive |-> NoArchive]

IsRunning(c) == c.code = Running

Respond(c, code, error) ==
    IF IsRunning(c) THEN [c EXCEPT !.code = code, !.error = error] ELSE c

\* the route's catch block: res.status(500).json({error: ...})
Catch(c) == IF c.code = Thrown THEN [c EXCEPT !.code = 500] ELSE c

LogCall(c, call, id, val, ok) ==
    [c EXCEPT !.log = Append(@, [call |-> call, id |-> id, val |-> val, ok |-> ok])]

CallsOf(log, call) == SelectSeq(log, LAMBDA e : e.call = call)

\* request(): a non-ok HTTP response throws
Remote(c, call, id, val, ok) ==
    IF ok THEN LogCall(c, call, id, val, TRUE)
    ELSE [LogCall(c, call, id, val, FALSE) EXCEPT !.code = Thrown]

\* the ids 1..n in order: a row's id is its position in its table
Indices(n) == [i \in 1..n |-> i]

SeqToSet(s) == {s[i] : i \in 1..Len(s)}

(* ----------------- d1Client: the remote store facade ------------------ *)
\* Each operator issues one HTTP call: it is logged, and either returns
\* or throws (ok = FALSE).  UPDATE and DELETE of an id that has no row
\* change nothing.

HasProject(db, id) == id \in 1..Len(db.projects) /\ db.projects[id].live
HasImage(db, id) == id \in 1..Len(db.images) /\ db.images[id].live
HasSection(db, id) == id \in 1..Len(db.sections)

ProjectsList(c, userId, ok) ==
    IF ~IsRunning(c) THEN c
    ELSE IF ~ok THEN Remote(c, "projects.list", userId, "", FALSE)
    ELSE [Remote(c, "projects.list", userId, "", TRUE) EXCEPT
            !.retProjects = {i \in 1..Len(c.db.projects) :
                               c.db.projects[i].live /\ c.db.projects[i].user_id = userId}]

ProjectsCreate(c, userId, productName, status, ok) ==
    IF ~IsRunning(c) THEN c
    ELSE IF ~ok THEN Remote(c, "projects.create", userId, status, FALSE)
    ELSE [Remote(c, "projects.create", userId, status, TRUE) EXCEPT
            !.db.projects = Append(@, [live |-> TRUE, user_id |-> userId,
                                       status |-> status, product_name |-> productName]),
            !.retProjects = {Len(c.db.projects) + 1}]

ProjectsGetById(c, id, ok) ==
    IF ~IsRunning(c) THEN c
    ELSE IF ~ok THEN Remote(c, "projects.getById", id, "", FALSE)
    ELSE [Remote(c, "projects.getById", id, "", TRUE) EXCEPT
            !.project = IF HasProject(c.db, id) THEN c.db.projects[id] ELSE NoProject]

\* JSON.stringify drops undefined fields: only the fields sent are stored
ProjectsUpdate(c, id, productName, status, ok) ==
    IF ~IsRunning(c) THEN c
    ELSE IF ~ok THEN Remote(c, "projects.update", id, status, FALSE)
    ELSE IF ~HasProject(c.db, id) THEN Remote(c, "projects.update", id, status, TRUE)
    ELSE [Remote(c, "projects.update", id, status, TRUE) EXCEPT
            !.db.projects[id].status = IF status = NoVal THEN @ ELSE status,
            !.db.projects[id].product_name = IF productName = NoVal THEN @ ELSE productName]

ProjectsDelete(c, id, ok) ==
    IF ~IsRunning(c) THEN c
    ELSE IF ~ok THEN Remote(c, "projects.delete", id, "", FALSE)
    ELSE IF ~HasProject(c.db, id) THEN Remote(c, "projects.delete", id, "", TRUE)
    ELSE [Remote(c, "projects.delete", id, "", TRUE) EXCEPT !.db.projects[id] = NoProject]

ImageIdsOf(db, projectId) ==
    SelectSeq(Indices(Len(db.images)),
              LAMBDA i : db.images[i].live /\ db.images[i].project_id = projectId)

SectionIdsOf(db, projectId) ==
    SelectSeq(Indices(Len(db.sections)), LAMBDA i : db.sections[i].project_id = projectId)

ImagesListByProject(c, projectId, ok) ==
    IF ~IsRunning(c) THEN c
    ELSE Remote(c, "images.listByProject", projectId, "", ok)

\* the sectionId of the request body is not stored
ImagesCreate_Mut(c, projectId, sectionId, type, r2Key, ok) ==
    IF ~IsRunning(c) THEN c
    ELSE IF ~ok THEN Remote(c, "images.create", sectionId, type, FALSE)
    ELSE [Remote(c, "images.create", sectionId, type, TRUE) EXCEPT
            !.db.images = Append(@, [live |-> TRUE, project_id |-> projectId,
                                     section_id |-> 0, type |-> type,
                                     r2_key |-> r2Key])]

ImagesCreate(c, projectId, sectionId, type, r2Key, ok) ==
    IF ~IsRunning(c) THEN c
    ELSE IF ~ok THEN Remote(c, "images.create", sectionId, type, FALSE)
    ELSE [Remote(c, "images.create", sectionId, type, TRUE) EXCEPT
            !.db.images = Append(@, [live |-> TRUE, project_id |-> projectId,
                                     section_id |-> sectionId, type |-> type,
                                     r2_key |-> r2Key])]

ImagesDelete(c, id, ok) ==
    IF ~IsRunning(c) THEN c
    ELSE IF ~ok THEN Remote(c, "images.delete", id, "", FALSE)
    ELSE IF ~HasImage(c.db, id) THEN Remote(c, "images.delete", id, "", TRUE)
    ELSE [Remote(c, "images.delete", id, "", TRUE) EXCEPT !.db.images[id] = NoImage]

SectionsListByProject(c, projectId, ok) ==
    IF ~IsRunning(c) THEN c
    ELSE Remote(c, "sections.listByProject", projectId, "", ok)

SectionsUpdate(c, id, text, ok) ==
    IF ~IsRunning(c) THEN c
    ELSE IF ~ok THEN Remote(c, "sections.update", id, text, FALSE)
    ELSE IF ~HasSection(c.db, id) THEN Remote(c, "sections.update", id, text, TRUE)
    ELSE [Remote(c, "sections.update", id, text, TRUE) EXCEPT
            !.db.sections[id].text = IF text = NoVal THEN @ ELSE text,
            !.retSections = {id}]

\* n sections drafted by the model, stored in array order
SectionsBatchCreate(c, projectId, n, ok) ==
    IF ~IsRunning(c) THEN c
    ELSE IF ~ok THEN Remote(c, "sections.batchCreate", projectId, "", FALSE)
    ELSE [Remote(c, "sections.batchCreate", projectId, "", TRUE) EXCEPT
            !.db.sections = @ \o [i \in 1..n |->
                 [project_id |-> projectId, order_index |-> i - 1, text |-> "ai"]],
            !.retSections = {Len(c.db.sections) + i : i \in 1..n}]

CompetitorTextListByProject(c, projectId, ok) ==
    IF ~IsRunning(c) THEN c
    ELSE Remote(c, "competitorText.listByProject", projectId, "", ok)

CompetitorTextCreate(c, projectId, imageId, ok) ==
    IF ~IsRunning(c) THEN c
    ELSE IF ~ok THEN Remote(c, "competitorText.create", imageId, "", FALSE)
    ELSE [Remote(c, "competitorText.create", imageId, "", TRUE) EXCEPT
            !.db.competitorText = Append(@, [project_id |-> projectId]),
            !.retTexts = @ + 1]

StorageUpload(c, r2Key, ok) ==
    IF ~IsRunning(c) THEN c
    ELSE Remote(c, "storage.upload", r2Key[3], r2Key[2], ok)

(* --------------------------- shared checks ---------------------------- *)
\* the check left out
Authenticate_Mut(c, req) == c

\* if (!req.user) return res.status(401)
Authenticate(c, req) ==
    IF req.user = NoUser THEN Respond(c, 401, "Not authenticated") ELSE c

\* if (!project || project.user_id !== req.user.id) return res.status(403)
OwnsProject(project, user) == project.live /\ project.user_id = user

\* a gate that also reads the status: completed projects are locked
RequireOwner_Mut(c, req) ==
    IF IsRunning(c) /\ (~OwnsProject(c.project, req.user) \/ c.project.status = "completed")
    THEN Respond(c, 403, "Access denied") ELSE c

RequireOwner(c, req) ==
    IF IsRunning(c) /\ ~OwnsProject(c.project, req.user)
    THEN Respond(c, 403, "Access denied") ELSE c

\* projects.ts answers 404 for a missing project, then 403
RequireFoundThenOwner(c, req) ==
    IF IsRunning(c) /\ ~c.project.live THEN Respond(c, 404, "Project not found")
    ELSE IF IsRunning(c) /\ c.project.user_id # req.user THEN Respond(c, 403, "Access denied")
    ELSE c

Falsy(str) == str = NoVal \/ str = ""

(* ----------------------------- projects.ts ---------------------------- *)
ListProjects(req, db) ==
    LET c1 == Authenticate(Start(db), req)
        c2 == ProjectsList(c1, req.user, req.fail # "list")
    IN  Catch(Respond(c2, 200, ""))

CreateProject(req, db) ==
    LET c1 == Authenticate(Start(db), req)
        c2 == IF IsRunning(c1) /\ Falsy(req.name)
              THEN Respond(c1, 400, "Product name is required") ELSE c1
        c3 == ProjectsCreate(c2, req.user, req.name, InitialStatus, req.fail # "create")
    IN  Catch(Respond(c3, 201, ""))

GetProject(req, db) ==
    LET c1 == Authenticate(Start(db), req)
        c2 == ProjectsGetById(c1, req.pid, req.fail # "getById")
        c3 == RequireFoundThenOwner(c2, req)
        \* Promise.all: the three lists are all requested; any rejection throws
        c4 == IF ~IsRunning(c3) THEN c3
              ELSE LogCall(LogCall(LogCall(c3,
                      "images.listByProject", req.pid, "", req.fail # "listImages"),
                      "sections.listByProject", req.pid, "", req.fail # "listSections"),
                      "competitorText.listByProject", req.pid, "", req.fail # "listTexts")
        c5 == IF IsRunning(c4) /\ req.fail \in {"listImages", "listSections", "listTexts"}
              THEN [c4 EXCEPT !.code = Thrown] ELSE c4
        c6 == IF ~IsRunning(c5) THEN c5
              ELSE [c5 EXCEPT !.retProjects = {req.pid},
                              !.retImages = SeqToSet(ImageIdsOf(db, req.pid)),
                              !.retSections = SeqToSet(SectionIdsOf(db, req.pid))]
    IN  Catch(Respond(c6, 200, ""))

UpdateProject(req, db) ==
    LET c1 == Authenticate(Start(db), req)
        c2 == ProjectsGetById(c1, req.pid, req.fail # "getById")
        c3 == RequireFoundThenOwner(c2, req)
        c4 == ProjectsUpdate(c3, req.pid, req.name, req.status, req.fail # "update")
        \* res.json(updated)
        c5 == IF IsRunning(c4) THEN [c4 EXCEPT !.retProjects = {req.pid}] ELSE c4
    IN  Catch(Respond(c5, 200, ""))

DeleteProject(req, db) ==
    LET c1 == Authenticate(Start(db), req)
        c2 == ProjectsGetById(c1, req.pid, req.fail # "getById")
        c3 == RequireFoundThenOwner(c2, req)
        c4 == ProjectsDelete(c3, req.pid, req.fail # "delete")
    IN  Catch(Respond(c4, 200, ""))

(* ------------------------------ images.ts ----------------------------- *)
\* `projects/${projectId}/${type}/${uuidv4()}.${ext}`: an absent type prints
\* as "undefined"; the record stores type || 'product_input'
KeySegment(type) == IF type = NoVal THEN "undefined" ELSE type
RecordType(type) == IF Falsy(type) THEN "product_input" ELSE type

RECURSIVE UploadFiles(_, _, _)
UploadFiles(c, req, i) ==
    IF i > Len(req.items) \/ ~IsRunning(c) THEN c
    ELSE LET r2Key == <<req.pid, KeySegment(req.type), i>>
             c1 == StorageUpload(c, r2Key, req.items[i] # "uploadFail")
             c2 == ImagesCreate(c1, req.pid, 0, RecordType(req.type), r2Key,
                                req.items[i] # "createFail")
             c3 == IF IsRunning(c2) THEN [c2 EXCEPT !.retImages = @ \cup {Len(c2.db.images)}]
                   ELSE c2
         IN  UploadFiles(c3, req, i + 1)

UploadImages(req, db) ==
    LET c1 == Authenticate(Start(db), req)
        c2 == ProjectsGetById(c1, req.pid, req.fail # "getById")
        c3 == RequireOwner(c2, req)
        c4 == IF IsRunning(c3) /\ Len(req.items) = 0
              THEN Respond(c3, 400, "No files uploaded") ELSE c3
        c5 == UploadFiles(c4, req, 1)
    IN  Catch(Respond(c5, 201, ""))

ListImages(req, db) ==
    LET c1 == Authenticate(Start(db), req)
        c2 == ProjectsGetById(c1, req.pid, req.fail # "getById")
        c3 == RequireOwner(c2, req)
        c4 == ImagesListByProject(c3, req.pid, req.fail # "list")
        c5 == IF IsRunning(c4)
              THEN [c4 EXCEPT !.retImages = SeqToSet(ImageIdsOf(db, req.pid))] ELSE c4
    IN  Catch(Respond(c5, 200, ""))

\* no ownership check: the image is deleted directly
DeleteImage(req, db) ==
    LET c1 == Authenticate(Start(db), req)
        c2 == ImagesDelete(c1, req.id, req.fail # "delete")
    IN  Catch(Respond(c2, 200, ""))

(* ------------------------------ scripts.ts ---------------------------- *)
\* outcomes of the text model call of POST /:projectId/generate
\*   "throw"    the call rejects
\*   "badjson"  the content is not JSON
\*   "null"     the content is the JSON value null
\*   "invalid"  JSON without a sections array (also the '{}' default)
\*   "sections" JSON with a sections array of req.n entries
ScriptOutcomes == {"throw", "badjson", "null", "invalid", "sections"}

GenerateScript(req, db) ==
    LET c1 == Authenticate(Start(db), req)
        c2 == ProjectsGetById(c1, req.pid, req.fail # "getById")
        c3 == RequireOwner(c2, req)
        c4 == ProjectsUpdate(c3, req.pid, NoVal, ScriptingStatus, req.fail # "update1")
        c5 == CompetitorTextListByProject(c4, req.pid, req.fail # "listTexts")
        c6 == IF ~IsRunning(c5) THEN c5
              ELSE Remote(c5, "chat.completions.create", 0, "text", req.ai # "throw")
        c7 == IF ~IsRunning(c6) THEN c6
              ELSE IF req.ai = "badjson" THEN Respond(c6, 500, "Failed to parse AI response")
              ELSE IF req.ai = "null" THEN [c6 EXCEPT !.code = Thrown]
              ELSE IF req.ai = "invalid" THEN Respond(c6, 500, "Invalid AI response format")
              ELSE c6
        c8 == SectionsBatchCreate(c7, req.pid, req.n, req.fail # "batchCreate")
        c9 == ProjectsUpdate(c8, req.pid, NoVal, ScriptedStatus, req.fail # "update2")
        \* res.json({success, sections: savedSections})
    IN  Catch(Respond(c9, 200, ""))

GetSections(req, db) ==
    LET c1 == Authenticate(Start(db), req)
        c2 == ProjectsGetById(c1, req.pid, req.fail # "getById")
        c3 == RequireOwner(c2, req)
        c4 == SectionsListByProject(c3, req.pid, req.fail # "list")
        c5 == IF IsRunning(c4)
              THEN [c4 EXCEPT !.retSections = SeqToSet(SectionIdsOf(db, req.pid))] ELSE c4
    IN  Catch(Respond(c5, 200, ""))

\* no project is fetched: the section is updated directly
UpdateSection(req, db) ==
    LET c1 == Authenticate(Start(db), req)
        c2 == SectionsUpdate(c1, req.id, req.text, req.fail # "update")
    IN  Catch(Respond(c2, 200, ""))

\* outcomes of the text model call of POST /section/:sectionId/regenerate
\*   "throw", "badjson" (JSON.parse throws), "null" (newContent.title throws),
\*   "empty" ('{}': every field undefined), "ok"
RegenOutcomes == {"throw", "badjson", "null", "empty", "ok"}

RegenerateSection(req, db) ==
    LET c1 == Authenticate(Start(db), req)
        c2 == SectionsListByProject(c1, req.pid, req.fail # "list")
        found == HasSection(db, req.id) /\ db.sections[req.id].project_id = req.pid
        c3 == IF IsRunning(c2) /\ ~found THEN Respond(c2, 404, "Section not found") ELSE c2
        c4 == IF ~IsRunning(c3) THEN c3
              ELSE Remote(c3, "chat.completions.create", req.id, "text", req.ai # "throw")
        c5 == IF IsRunning(c4) /\ req.ai \in {"badjson", "null"}
              THEN [c4 EXCEPT !.code = Thrown] ELSE c4
        c6 == SectionsUpdate(c5, req.id, IF req.ai = "empty" THEN NoVal ELSE "ai",
                             req.fail # "update")
    IN  Catch(Respond(c6, 200, ""))

\* every image of the project is sent to the model
IsCompetitor_Mut(img) == img.live

IsCompetitor(img) == img.live /\ img.type = "competitor_input"

CompetitorImageIds(db, projectId) ==
    SelectSeq(Indices(Len(db.images)),
              LAMBDA i : IsCompetitor(db.images[i]) /\ db.images[i].project_id = projectId)

\* outcomes of the loop body for one competitor image
\*   "throw" (model call rejects), "badjson" (JSON.parse throws),
\*   "saveFail" (competitorText.create rejects), "ok"
\* "badjson" stands for every content that makes the lines after the call
\* throw: text that JSON.parse rejects, or the JSON literal null.
ExtractOutcomes == {"throw", "badjson", "saveFail", "ok"}

RECURSIVE ExtractLoop(_, _, _, _)
\* each iteration has its own try/catch: a failure is logged and the loop goes on
ExtractLoop(c, req, ids, i) ==
    IF i > Len(ids) \/ ~IsRunning(c) THEN c
    ELSE LET o == req.items[i]
             c1 == LogCall(c, "chat.completions.create", ids[i], "vision", o # "throw")
             c2 == IF o \in {"throw", "badjson"} THEN c1
                   ELSE IF o = "saveFail"
                        THEN LogCall(c1, "competitorText.create", ids[i], "", FALSE)
                   ELSE CompetitorTextCreate(c1, req.pid, ids[i], TRUE)
         IN  ExtractLoop(c2, req, ids, i + 1)

ExtractText(req, db) ==
    LET c1 == Authenticate(Start(db), req)
        c2 == ProjectsGetById(c1, req.pid, req.fail # "getById")
        c3 == RequireOwner(c2, req)
        c4 == ImagesListByProject(c3, req.pid, req.fail # "list")
        ids == CompetitorImageIds(db, req.pid)
        c5 == IF IsRunning(c4) /\ Len(ids) = 0
              THEN Respond(c4, 400, "No competitor images found") ELSE c4
        c6 == ExtractLoop(c5, req, ids, 1)
    IN  Catch(Respond(c6, 200, ""))

(* ------------------------------ generate.ts --------------------------- *)
\* Outcomes of the calls inside generateImageWithGemini:
\*   chat: "image" (content carries a base64 data URI), "noimage", "throw"
\*   gen : the images.generate call of the try block: "data", "empty", "throw"
\*   fb  : the images.generate call of the catch block: "data", "empty", "throw"
\* "na" marks a call the path never reaches.
GeminiCases ==
    {g \in [chat : {"image", "noimage", "throw"},
            gen : {"data", "empty", "throw", "na"},
            fb : {"data", "empty", "throw", "na"}] :
        /\ (g.gen = "na") <=> (g.chat # "noimage")
        /\ (g.fb = "na") <=> ~(g.chat = "throw" \/ g.gen = "throw")}

AiCall(call, ok) == [call |-> call, id |-> 0, val |-> "image", ok |-> ok]

\* the calls one invocation issues, in order, and whether it returns a Buffer
GenerateImageWithGemini(g) ==
    LET chat == <<AiCall("chat.completions.create", g.chat # "throw")>>
        fallback == <<AiCall("images.generate", g.fb # "throw")>>
    IN  IF g.chat = "image" THEN [calls |-> chat, buffer |-> TRUE]
        ELSE IF g.chat = "throw"
             THEN [calls |-> chat \o fallback, buffer |-> g.fb = "data"]
        ELSE IF g.gen = "throw"
             THEN [calls |-> chat \o <<AiCall("images.generate", FALSE)>> \o fallback,
                   buffer |-> g.fb = "data"]
        ELSE [calls |-> chat \o <<AiCall("images.generate", TRUE)>>,
              buffer |-> g.gen = "data"]

\* `projects/${projectId}/generated/${section.id}_${Date.now()}.png`
GeneratedKey(projectId, sectionId) == <<projectId, "generated", sectionId>>

RECURSIVE GenerateLoop(_, _, _, _)
\* one iteration per section, each inside its own try/catch
GenerateLoop(c, req, ids, i) ==
    IF i > Len(ids) \/ ~IsRunning(c) THEN c
    ELSE LET o == req.items[i]
             img == GenerateImageWithGemini(o.g)
             c1 == [c EXCEPT !.log = @ \o img.calls]
             r2Key == GeneratedKey(req.pid, ids[i])
             c2 == IF ~img.buffer THEN c1
                   ELSE LogCall(c1, "storage.upload", r2Key[3], r2Key[2], o.up)
             c3 == IF ~img.buffer \/ ~o.up THEN c2
                   ELSE IF ~o.cr THEN LogCall(c2, "images.create", ids[i], "generated_output", FALSE)
                   ELSE [ImagesCreate(c2, req.pid, ids[i], "generated_output", r2Key, TRUE)
                           EXCEPT !.retImages = @ \cup {Len(c2.db.images) + 1}]
         IN  GenerateLoop(c3, req, ids, i + 1)

\* catch of POST /:projectId/images: the status is put back, errors swallowed
RestoreThenFail(c, req) ==
    IF c.code # Thrown THEN c
    ELSE LET r == IF req.restoreOk
                  THEN ProjectsUpdate([c EXCEPT !.code = Running], req.pid, NoVal,
                                      RestoredStatus, TRUE)
                  ELSE LogCall(c, "projects.update", req.pid, RestoredStatus, FALSE)
         IN  [r EXCEPT !.code = 500]

GenerateImages(req, db) ==
    LET c1 == Authenticate(Start(db), req)
        c2 == ProjectsGetById(c1, req.pid, req.fail # "getById")
        c3 == RequireOwner(c2, req)
        c4 == ProjectsUpdate(c3, req.pid, NoVal, GeneratingStatus, req.fail # "update1")
        c5 == SectionsListByProject(c4, req.pid, req.fail # "list")
        ids == SectionIdsOf(db, req.pid)
        c6 == IF IsRunning(c5) /\ Len(ids) = 0
              THEN Respond(c5, 400, "No script sections found. Please generate script first.") ELSE c5
        c7 == GenerateLoop(c6, req, ids, 1)
        c8 == ProjectsUpdate(c7, req.pid, NoVal, GeneratedStatus, req.fail # "update2")
    IN  RestoreThenFail(Respond(c8, 200, ""), req)

RegenerateImage(req, db) ==
    LET c1 == Authenticate(Start(db), req)
        c2 == ProjectsGetById(c1, req.pid, req.fail # "getById")
        c3 == RequireOwner(c2, req)
        c4 == SectionsListByProject(c3, req.pid, req.fail # "list")
        found == HasSection(db, req.sid) /\ db.sections[req.sid].project_id = req.pid
        c5 == IF IsRunning(c4) /\ ~found THEN Respond(c4, 404, "Section not found") ELSE c4
        img == GenerateImageWithGemini(req.g)
        c6 == IF IsRunning(c5) THEN [c5 EXCEPT !.log = @ \o img.calls] ELSE c5
        c7 == IF IsRunning(c6) /\ ~img.buffer
              THEN Respond(c6, 500, "Failed to generate image") ELSE c6
        r2Key == GeneratedKey(req.pid, req.sid)
        c8 == StorageUpload(c7, r2Key, req.fail # "upload")
        c9 == ImagesDelete(c8, req.id, req.fail # "delete")
        c10 == ImagesCreate(c9, req.pid, req.sid, "generated_output", r2Key,
                            req.fail # "create")
        c11 == IF IsRunning(c10) THEN [c10 EXCEPT !.retImages = {Len(c10.db.images)}]
               ELSE c10
    IN  Catch(Respond(c11, 200, ""))

IsGenerated(img) == img.live /\ img.type = "generated_output"

GeneratedImageIds(db, projectId) ==
    SelectSeq(Indices(Len(db.images)),
              LAMBDA i : IsGenerated(db.images[i]) /\ db.images[i].project_id = projectId)

\* `detail_${i}.png`
EntryNumber_Mut(i) == i - 1

\* archive.append(buffer, {name: `detail_${i + 1}.png`}), i counted from 0
EntryNumber(i) == i

RECURSIVE ArchiveLoop(_, _, _, _)
\* items[i] tells whether the fetch of the i-th generated image returned
ArchiveLoop(c, req, ids, i) ==
    IF i > Len(ids) \/ ~IsRunning(c) THEN c
    ELSE LET c1 == LogCall(c, "fetch", ids[i], "", req.items[i])
             c2 == IF req.items[i]
                   THEN [c1 EXCEPT !.archive.entries = Append(@, EntryNumber(i)),
                                   !.retImages = @ \cup {ids[i]}]
                   ELSE c1
         IN  ArchiveLoop(c2, req, ids, i + 1)

Download(req, db) ==
    LET c1 == Authenticate(Start(db), req)
        c2 == ProjectsGetById(c1, req.pid, req.fail # "getById")
        c3 == RequireOwner(c2, req)
        c4 == ImagesListByProject(c3, req.pid, req.fail # "listImages")
        ids == GeneratedImageIds(db, req.pid)
        c5 == IF IsRunning(c4) /\ Len(ids) = 0
              THEN Respond(c4, 400, "No generated images found") ELSE c4
        c6 == ArchiveLoop(c5, req, ids, 1)
        c7 == SectionsListByProject(c6, req.pid, req.fail # "listSections")
        c8 == IF ~IsRunning(c7) THEN c7
              ELSE [c7 EXCEPT !.archive.script = SectionIdsOf(db, req.pid),
                              !.archive.hasScript = TRUE,
                              !.retSections = SeqToSet(SectionIdsOf(db, req.pid))]
        c9 == IF ~IsRunning(c8) THEN c8
              ELSE IF req.fail = "finalize"
                   THEN [LogCall(c8, "archive.finalize", 0, "", FALSE) EXCEPT !.code = Thrown]
              ELSE [LogCall(c8, "archive.finalize", 0, "", TRUE) EXCEPT !.archive.finalized = TRUE]
        c10 == ProjectsUpdate(c9, req.pid, NoVal, CompletedStatus, req.fail # "update")
        \* an unfinished archive is not a download; a finished one has been sent
        c11 == IF c10.archive.finalized THEN [c10 EXCEPT !.code = 200]
               ELSE [c10 EXCEPT !.archive = NoArchive]
    IN  Catch(c11)

(* ------------------------------- auth.ts ------------------------------ *)
UsersGetById(c, id, ok) ==
    IF ~IsRunning(c) THEN c
    ELSE Remote(c, "users.getById", id, "", ok)

Me(req, db) ==
    LET c1 == Authenticate(Start(db), req)
        c2 == UsersGetById(c1, req.user, req.fail # "getById")
    IN  Catch(Respond(c2, 200, ""))

(* --------------- auth.ts: register, login, me (bodies) ---------------- *)
\* The users table is remote like the others.  A register request is one
\* process per slot: it yields at every await, so its steps interleave
\* with the steps of the other requests.
Emails == {"a@shop", "b@shop"}
Passwords == {"pw1", "pw2"}
RegSlots == 1..NumRegs

\* bcrypt.hash(password, 10) and bcrypt.compare(password, hash)
BcryptHash(password) == <<"bcrypt", password>>
BcryptCompare(password, hash) == hash = BcryptHash(password)

\* the row the remote finds for an email (0: none); the first one wins
FindUser(us, email) ==
    IF \E i \in 1..Len(us) : us[i].email = email
    THEN CHOOSE i \in 1..Len(us) :
            us[i].email = email /\ \A j \in 1..(i - 1) : us[j].email # email
    ELSE 0

\* What users.login(email) does in request():
\*   "row"      the remote answers ok with the user row
\*   "null"     the remote answers ok with null (no such user)
\*   "notfound" the remote answers not-ok for an unknown email: request() throws
\*   "error"    the call fails for any other reason: request() throws
LookupOutcomes(us, email) ==
    IF FindUser(us, email) # 0 THEN {"row", "error"} ELSE {"null", "notfound", "error"}

\* the fields the routes copy into a response: {id, email, name, role}
PublicFields == {"id", "email", "name", "role"}

NoBody == [fields |-> {}, id |-> 0, token |-> FALSE]

\* res.json({user: {id, email, name, role}, token})
UserBody(id) == [fields |-> PublicFields, id |-> id, token |-> TRUE]

\* res.json({id, email, name, role}) of GET /me
MeBody(id) == [fields |-> PublicFields, id |-> id, token |-> FALSE]

NoReg ==
    [pc |-> "idle", email |-> NoVal, password |-> NoVal, lookup |-> "", called |-> FALSE,
     peers |-> {}, code |-> Running, error |-> "", body |-> NoBody]

NoAuth ==
    [route |-> "none", email |-> NoVal, password |-> NoVal, user |-> NoUser, lookup |-> "",
     code |-> Running, error |-> "", body |-> NoBody]

\* the register requests between their first statement and their response
InFlight(s) == regs[s].pc \in {"check", "create"}

\* POST /register, up to the first await: the body is validated
RegisterStart(s) ==
    /\ regs[s].pc = "idle"
    /\ \E e \in Emails \cup {NoVal}, pw \in Passwords \cup {""} :
         LET same == {t \in RegSlots \ {s} : InFlight(t) /\ regs[t].email = e}
         IN  IF Falsy(e) \/ Falsy(pw)
             THEN regs' = [regs EXCEPT ![s] =
                     [NoReg EXCEPT !.pc = "done", !.email = e, !.password = pw,
                                   !.code = 400, !.error = "Email and password are required"]]
             ELSE regs' = [t \in RegSlots |->
                     IF t = s THEN [NoReg EXCEPT !.pc = "check", !.email = e,
                                                 !.password = pw, !.peers = same]
                     ELSE IF t \in same THEN [regs[t] EXCEPT !.peers = @ \cup {s}]
                     ELSE regs[t]]
    /\ UNCHANGED <<users, auth>>
    /\ UNCHANGED projectVars

\* try { existingUser = await users.login(email); if (existingUser) return 400 }
\* catch (e) { /* continue */ }: every throw is taken for "no such user"
RegisterCheck(s) ==
    /\ regs[s].pc = "check"
    /\ \E o \in LookupOutcomes(users, regs[s].email) :
         regs' = [regs EXCEPT ![s] =
                    IF o = "row"
                    THEN [@ EXCEPT !.pc = "done", !.lookup = o, !.code = 400,
                                   !.error = "User already exists"]
                    ELSE [@ EXCEPT !.pc = "create", !.lookup = o]]
    /\ UNCHANGED <<users, auth>>
    /\ UNCHANGED projectVars

\* passwordHash = await bcrypt.hash(...); user = await users.create(...);
\* res.status(201).json({user, token}); a rejected create is answered 500
RegisterCreate(s) ==
    /\ regs[s].pc = "create"
    /\ \E ok \in BOOLEAN :
         IF ok
         THEN /\ Len(users) < MaxAccounts
              /\ users' = Append(users, [email |-> regs[s].email,
                                          password_hash |-> BcryptHash(regs[s].password)])
              /\ regs' = [regs EXCEPT ![s] =
                            [@ EXCEPT !.pc = "done", !.called = TRUE, !.code = 201,
                                      !.body = UserBody(Len(users) + 1)]]
         ELSE /\ users' = users
              /\ regs' = [regs EXCEPT ![s] =
                            [@ EXCEPT !.pc = "done", !.called = TRUE, !.code = 500,
                                      !.error = "remote error"]]
    /\ UNCHANGED auth
    /\ UNCHANGED projectVars

\* the response of the register request has been delivered
RegisterSent(s) ==
    /\ regs[s].pc = "done"
    /\ regs' = [t \in RegSlots |->
                  IF t = s THEN NoReg ELSE [regs[t] EXCEPT !.peers = @ \ {s}]]
    /\ UNCHANGED <<users, auth>>
    /\ UNCHANGED projectVars

\* POST /login: it only reads, so its awaits need no separate steps
Login(email, password, o, us) ==
    LET req == [NoAuth EXCEPT !.route = "POST /auth/login", !.email = email,
                              !.password = password]
        id == FindUser(us, email)
    IN  IF Falsy(email) \/ Falsy(password)
        THEN [req EXCEPT !.code = 400, !.error = "Email and password are required"]
        ELSE IF o \in {"notfound", "error"}
             THEN [req EXCEPT !.lookup = o, !.code = 500, !.error = "remote error"]
        ELSE IF o = "null"
             THEN [req EXCEPT !.lookup = o, !.code = 401, !.error = "Invalid credentials"]
        ELSE IF ~BcryptCompare(password, us[id].password_hash)
             THEN [req EXCEPT !.lookup = o, !.code = 401, !.error = "Invalid credentials"]
        ELSE [req EXCEPT !.lookup = o, !.code = 200, !.body = UserBody(id)]

LoginReq ==
    /\ auth.route = "none"
    /\ \E e \in Emails \cup {NoVal}, pw \in Passwords \cup {""} :
         \E o \in IF Falsy(e) \/ Falsy(pw) THEN {""} ELSE LookupOutcomes(users, e) :
            auth' = Login(e, pw, o, users)
    /\ UNCHANGED <<users, regs>>
    /\ UNCHANGED projectVars

\* GET /me with its response body; u is the id carried by the token
MeWithBody(u, ok, us) ==
    LET req == [NoAuth EXCEPT !.route = "GET /auth/me", !.user = u]
    IN  IF u = NoUser THEN [req EXCEPT !.code = 401, !.error = "Not authenticated"]
        ELSE IF ~ok THEN [req EXCEPT !.code = 500, !.error = "remote error"]
        ELSE IF u > Len(us) THEN [req EXCEPT !.code = 500, !.error = "TypeError"]
        ELSE [req EXCEPT !.code = 200, !.body = MeBody(u)]

AuthMeReq ==
    /\ auth.route = "none"
    /\ \E u \in 0..MaxAccounts, ok \in BOOLEAN :
         /\ (u = NoUser => ok)
         /\ auth' = MeWithBody(u, ok, users)
    /\ UNCHANGED <<users, regs>>
    /\ UNCHANGED projectVars

\* the response of /login or /me has been delivered
AuthSent ==
    /\ auth.route # "none"
    /\ auth' = NoAuth
    /\ UNCHANGED <<users, regs>>
    /\ UNCHANGED projectVars

(* --------------------------- requests, steps -------------------------- *)
AllUsers == 0..NumUsers
ProjectIds == 1..MaxProjects
ImageIds == 1..MaxImages
SectionIds == 1..MaxSections
ProductNames == {NoVal, "", "lamp"}
BodyStatuses == {NoVal, "uploaded", "generated", "archived"}
UploadTypes == {NoVal, "competitor_input"}
SectionTexts == {NoVal, "user"}

NoGemini == [chat |-> "image", gen |-> "na", fb |-> "na"]

BaseReq ==
       [user |-> NoUser, pid |-> 0, id |-> 0, sid |-> 0, name |-> NoVal, status |-> NoVal,
        type |-> NoVal, text |-> NoVal, ai |-> "", n |-> 0, g |-> NoGemini,
        fail |-> "none", restoreOk |-> TRUE, items |-> <<>>]

StatusOf(db, id) == IF HasProject(db, id) THEN db.projects[id].status ELSE ""

InBounds(db) ==
    /\ Len(db.projects) <= MaxProjects
    /\ Len(db.images) <= MaxImages
    /\ Len(db.sections) <= MaxSections
    /\ Len(db.competitorText) <= MaxTexts

Succeeded(code) == code \in {200, 201}

\* the handler's result becomes the new remote state and the response
Step(route, req, c) ==
    /\ InBounds(c.db)
    /\ projects' = c.db.projects
    /\ images' = c.db.images
    /\ sections' = c.db.sections
    /\ competitorText' = c.db.competitorText
    /\ last' = [route |-> route, req |-> req, code |-> c.code, error |-> c.error,
                log |-> c.log,
                retProjects |-> IF Succeeded(c.code) THEN c.retProjects ELSE {},
                retImages |-> IF Succeeded(c.code) THEN c.retImages ELSE {},
                retSections |-> IF Succeeded(c.code) THEN c.retSections ELSE {},
                archive |-> c.archive]
    /\ UNCHANGED authVars

\* no request is being answered
Idling == last.route = "none"

Idle ==
    [route |-> "none", req |-> BaseReq, code |-> Running, error |-> "", log |-> <<>>,
     retProjects |-> {}, retImages |-> {}, retSections |-> {}, archive |-> NoArchive]

Init ==
    /\ projects = <<>>
    /\ images = <<>>
    /\ sections = <<>>
    /\ competitorText = <<>>
    /\ last = Idle
    /\ users = <<>>
    /\ regs = [s \in RegSlots |-> NoReg]
    /\ auth = NoAuth

\* the response has been delivered; the service waits for the next request
ResponseSent ==
    /\ last.route # "none"
    /\ last' = Idle
    /\ UNCHANGED <<projects, images, sections, competitorText>>
    /\ UNCHANGED authVars

\* Outcomes of calls a request never reaches are not enumerated: a request
\* without a user reaches no call, a request that fails the ownership check
\* reaches projects.getById only.
Owner(u, p) == u # NoUser /\ HasProject(DB, p) /\ OwnsProject(projects[p], u)

Fails(u, p, sites) ==
    IF u = NoUser THEN {"none"}
    ELSE IF Owner(u, p) THEN {"none", "getById"} \cup sites
    ELSE {"none", "getById"}

FailsNoGate(u, sites) == IF u = NoUser THEN {"none"} ELSE {"none"} \cup sites

\* per-item outcomes of a loop of k iterations, when the loop is reached
Items(reached, k, outcomes, default) ==
    IF reached THEN [1..k -> outcomes] ELSE {[i \in 1..k |-> default]}

ListProjectsReq ==
    /\ Idling
    /\ \E u \in AllUsers :
         \E f \in FailsNoGate(u, {"list"}) :
           LET req == [BaseReq EXCEPT !.user = u, !.fail = f]
           IN  Step("GET /projects", req, ListProjects(req, DB))

CreateProjectReq ==
    /\ Idling
    /\ \E u \in AllUsers, nm \in ProductNames :
         \E f \in FailsNoGate(u, IF Falsy(nm) THEN {} ELSE {"create"}) :
           LET req == [BaseReq EXCEPT !.user = u, !.name = nm, !.fail = f]
           IN  Step("POST /projects", req, CreateProject(req, DB))

GetProjectReq ==
    /\ Idling
    /\ \E u \in AllUsers, p \in ProjectIds :
         \E f \in Fails(u, p, {"listImages", "listSections", "listTexts"}) :
           LET req == [BaseReq EXCEPT !.user = u, !.pid = p, !.fail = f]
           IN  Step("GET /projects/:id", req, GetProject(req, DB))

UpdateProjectReq ==
    /\ Idling
    /\ \E u \in AllUsers, p \in ProjectIds :
         \E f \in Fails(u, p, {"update"}) :
           \E st \in IF Owner(u, p) /\ f # "getById" THEN BodyStatuses ELSE {"archived"} :
               LET req == [BaseReq EXCEPT !.user = u, !.pid = p, !.status = st, !.fail = f]
               IN  Step("PUT /projects/:id", req, UpdateProject(req, DB))

DeleteProjectReq ==
    /\ Idling
    /\ \E u \in AllUsers, p \in ProjectIds :
         \E f \in Fails(u, p, {"delete"}) :
           LET req == [BaseReq EXCEPT !.user = u, !.pid = p, !.fail = f]
           IN  Step("DELETE /projects/:id", req, DeleteProject(req, DB))

UploadImagesReq ==
    /\ Idling
    /\ \E u \in AllUsers, p \in ProjectIds, t \in UploadTypes, k \in 0..MaxFiles :
         \E f \in Fails(u, p, {}) :
           \E its \in Items(Owner(u, p) /\ f = "none", k,
                             {"ok", "uploadFail", "createFail"}, "ok") :
               LET req == [BaseReq EXCEPT !.user = u, !.pid = p, !.type = t, !.fail = f,
                                          !.items = its]
               IN  Step("POST /images/:projectId/upload", req, UploadImages(req, DB))

ListImagesReq ==
    /\ Idling
    /\ \E u \in AllUsers, p \in ProjectIds :
         \E f \in Fails(u, p, {"list"}) :
           LET req == [BaseReq EXCEPT !.user = u, !.pid = p, !.fail = f]
           IN  Step("GET /images/:projectId", req, ListImages(req, DB))

DeleteImageReq ==
    /\ Idling
    /\ \E u \in AllUsers, i \in ImageIds :
         \E f \in FailsNoGate(u, {"delete"}) :
           LET req == [BaseReq EXCEPT !.user = u, !.id = i, !.fail = f]
           IN  Step("DELETE /images/:imageId", req, DeleteImage(req, DB))

GenerateScriptReq ==
    /\ Idling
    /\ \E u \in AllUsers, p \in ProjectIds :
         \E f \in Fails(u, p, {"update1", "listTexts", "batchCreate", "update2"}) :
           \E ai \in IF ~Owner(u, p) \/ f \in {"getById", "update1", "listTexts"} THEN {"throw"}
                      ELSE IF f = "none" THEN ScriptOutcomes ELSE {"sections"} :
             \E n \in IF ai = "sections" THEN 0..MaxSections ELSE {0} :
               LET req == [BaseReq EXCEPT !.user = u, !.pid = p, !.ai = ai, !.n = n, !.fail = f]
               IN  Step("POST /scripts/:projectId/generate", req, GenerateScript(req, DB))

GetSectionsReq ==
    /\ Idling
    /\ \E u \in AllUsers, p \in ProjectIds :
         \E f \in Fails(u, p, {"list"}) :
           LET req == [BaseReq EXCEPT !.user = u, !.pid = p, !.fail = f]
           IN  Step("GET /scripts/:projectId", req, GetSections(req, DB))

UpdateSectionReq ==
    /\ Idling
    /\ \E u \in AllUsers, i \in SectionIds, t \in SectionTexts :
         \E f \in FailsNoGate(u, {"update"}) :
           LET req == [BaseReq EXCEPT !.user = u, !.id = i, !.text = t, !.fail = f]
           IN  Step("PUT /scripts/section/:sectionId", req, UpdateSection(req, DB))

RegenerateSectionReq ==
    /\ Idling
    /\ \E u \in AllUsers, p \in ProjectIds, i \in SectionIds :
         \E f \in FailsNoGate(u, {"list", "update"}) :
           \E ai \in IF u = NoUser \/ f = "list" THEN {"throw"}
                      ELSE IF f = "update" THEN {"empty", "ok"} ELSE RegenOutcomes :
               LET req == [BaseReq EXCEPT !.user = u, !.pid = p, !.id = i, !.ai = ai,
                                          !.fail = f]
               IN  Step("POST /scripts/section/:sectionId/regenerate", req,
                        RegenerateSection(req, DB))

ExtractTextReq ==
    /\ Idling
    /\ \E u \in AllUsers, p \in ProjectIds :
         \E f \in Fails(u, p, {"list"}) :
           \E its \in Items(Owner(u, p) /\ f = "none", Len(CompetitorImageIds(DB, p)),
                             ExtractOutcomes, "ok") :
               LET req == [BaseReq EXCEPT !.user = u, !.pid = p, !.fail = f, !.items = its]
               IN  Step("POST /scripts/:projectId/extract-text", req, ExtractText(req, DB))

\* Per-section outcomes of the generation loop.  The loop reads only whether
\* generateImageWithGemini returned a Buffer, so three of its paths stand
\* for the nine (all nine are explored by POST /regenerate/:imageId):
\* a Buffer at once, null, and a Buffer from the fallback call.
\* storage.upload and images.create are reached only with a Buffer.
LoopGeminiCases ==
    {NoGemini,
     [chat |-> "noimage", gen |-> "empty", fb |-> "na"],
     [chat |-> "noimage", gen |-> "throw", fb |-> "data"]}

SectionOutcomes ==
    {o \in [g : LoopGeminiCases, up : BOOLEAN, cr : BOOLEAN] :
        /\ (~o.up \/ ~o.cr) => o.g = NoGemini
        /\ ~o.up => o.cr}

SectionOk == [g |-> NoGemini, up |-> TRUE, cr |-> TRUE]

GenerateImagesReq ==
    /\ Idling
    /\ \E u \in AllUsers, p \in ProjectIds :
         \E f \in Fails(u, p, {"update1", "list", "update2"}) :
           \E ok \in IF f = "none" THEN {TRUE} ELSE BOOLEAN :
             \E its \in Items(Owner(u, p) /\ f = "none",
                               Len(SectionIdsOf(DB, p)), SectionOutcomes, SectionOk) :
               LET req == [BaseReq EXCEPT !.user = u, !.pid = p, !.fail = f,
                                          !.restoreOk = ok, !.items = its]
               IN  Step("POST /generate/:projectId/images", req, GenerateImages(req, DB))

RegenerateImageReq ==
    /\ Idling
    /\ \E u \in AllUsers, p \in ProjectIds, i \in ImageIds, sc \in SectionIds :
         \E f \in Fails(u, p, {"list", "upload", "delete", "create"}) :
           \E g \in IF ~Owner(u, p) \/ f \in {"getById", "list"} THEN {NoGemini}
                     ELSE IF f = "none" THEN GeminiCases
                     ELSE {NoGemini} :
               LET req == [BaseReq EXCEPT !.user = u, !.pid = p, !.id = i, !.sid = sc,
                                          !.g = g, !.fail = f]
               IN  Step("POST /generate/regenerate/:imageId", req, RegenerateImage(req, DB))

DownloadReq ==
    /\ Idling
    /\ \E u \in AllUsers, p \in ProjectIds :
         \E f \in Fails(u, p, {"listImages", "listSections", "finalize", "update"}) :
           \E its \in Items(Owner(u, p) /\ f \notin {"getById", "listImages"},
                             Len(GeneratedImageIds(DB, p)), BOOLEAN, TRUE) :
               LET req == [BaseReq EXCEPT !.user = u, !.pid = p, !.fail = f, !.items = its]
               IN  Step("GET /generate/:projectId/download", req, Download(req, DB))

MeReq ==
    /\ Idling
    /\ \E u \in AllUsers :
         \E f \in FailsNoGate(u, {"getById"}) :
            LET req == [BaseReq EXCEPT !.user = u, !.fail = f]
            IN  Step("GET /auth/me", req, Me(req, DB))

\* the handler of a route
Handle(route, req, db) ==
    CASE route = "GET /auth/me" -> Me(req, db)
      [] route = "GET /projects" -> ListProjects(req, db)
      [] route = "POST /projects" -> CreateProject(req, db)
      [] route = "GET /projects/:id" -> GetProject(req, db)
      [] route = "PUT /projects/:id" -> UpdateProject(req, db)
      [] route = "DELETE /projects/:id" -> DeleteProject(req, db)
      [] route = "POST /images/:projectId/upload" -> UploadImages(req, db)
      [] route = "GET /images/:projectId" -> ListImages(req, db)
      [] route = "DELETE /images/:imageId" -> DeleteImage(req, db)
      [] route = "POST /scripts/:projectId/generate" -> GenerateScript(req, db)
      [] route = "GET /scripts/:projectId" -> GetSections(req, db)
      [] route = "PUT /scripts/section/:sectionId" -> UpdateSection(req, db)
      [] route = "POST /scripts/section/:sectionId/regenerate" -> RegenerateSection(req, db)
      [] route = "POST /scripts/:projectId/extract-text" -> ExtractText(req, db)
      [] route = "POST /generate/:projectId/images" -> GenerateImages(req, db)
      [] route = "POST /generate/regenerate/:imageId" -> RegenerateImage(req, db)
      [] route = "GET /generate/:projectId/download" -> Download(req, db)

Next ==
    \/ MeReq
    \/ ListProjectsReq
    \/ CreateProjectReq
    \/ GetProjectReq
    \/ UpdateProjectReq
    \/ DeleteProjectReq
    \/ UploadImagesReq
    \/ ListImagesReq
    \/ DeleteImageReq
    \/ GenerateScriptReq
    \/ GetSectionsReq
    \/ UpdateSectionReq
    \/ RegenerateSectionReq
    \/ ExtractTextReq
    \/ GenerateImagesReq
    \/ RegenerateImageReq
    \/ DownloadReq
    \/ ResponseSent

Spec == Init /\ [][Next]_vars

\* the auth routes: register requests interleave at their awaits
AuthNext ==
    \/ \E s \in RegSlots : RegisterStart(s)
    \/ \E s \in RegSlots : RegisterCheck(s)
    \/ \E s \in RegSlots : RegisterCreate(s)
    \/ \E s \in RegSlots : RegisterSent(s)
    \/ LoginReq
    \/ AuthMeReq
    \/ AuthSent

AuthSpec == Init /\ [][AuthNext]_vars

(* ============================== claims ================================ *)
Answered(route) == last.route = route

\* the project of row r has an owner (in state db) other than user u
OwnedByOther(db, projectId, u) ==
    HasProject(db, projectId) /\ db.projects[projectId].user_id # u

(* C1: every route checks ownership before touching project-scoped data:   *)
(* a request by a user who does not own a project never returns, modifies  *)
(* or deletes an image or section record of that project.                  *)
C1_OwnershipChecked ==
    [][ last'.route # "none" =>
          /\ \A i \in 1..Len(images) :
                (images[i].live /\ OwnedByOther(DB, images[i].project_id, last'.req.user))
                  => (images'[i] = images[i] /\ i \notin last'.retImages)
          /\ \A i \in 1..Len(sections) :
                OwnedByOther(DB, sections[i].project_id, last'.req.user)
                  => (sections'[i] = sections[i] /\ i \notin last'.retSections) ]_vars

(* --------------------------------------------------------------------- *)
Rank(st) ==
    IF st \in Labels THEN CHOOSE i \in 1..Len(StatusChain) : StatusChain[i] = st ELSE 0

\* the status values one request stored, in order
StatusWrites(log) ==
    LET w == SelectSeq(log, LAMBDA e : e.call = "projects.update" /\ e.ok /\ e.val # NoVal)
    IN  [i \in 1..Len(w) |-> w[i].val]

(* C2 as stated: the status of a project is always one of the six labels   *)
(* and every write keeps it or moves it to a later label of the chain.     *)
C2_StatusOnlyForward ==
    [][ \A p \in 1..Len(projects') :
          projects'[p].live =>
            /\ projects'[p].status \in Labels
            /\ (p <= Len(projects) /\ projects[p].live)
                  => Rank(projects'[p].status) >= Rank(projects[p].status) ]_vars

(* C2 amended: a project is created as 'uploaded'; the routes other than   *)
(* PUT /projects/:id write only labels of the chain; after a request that  *)
(* stored a status the project carries the last value stored, whatever the *)
(* status was before (so it can move backward, as in the witness).         *)
C2_StatusWritesInChain ==
    last.route # "none" =>
        LET w == StatusWrites(last.log)
        IN  /\ last.route # "PUT /projects/:id" => \A i \in 1..Len(w) : w[i] \in Labels
            /\ (w # <<>> /\ HasProject(DB, last.req.pid))
                  => projects[last.req.pid].status = w[Len(w)]
            /\ (last.route = "POST /projects" /\ last.code = 201)
                  => projects[Len(projects)].status = "uploaded"

\* the image generation error path moved the status back from 'generating'
C2_Witness ==
    /\ Answered("POST /generate/:projectId/images")
    /\ last.code = 500
    /\ StatusWrites(last.log) = <<"generating", "scripted">>
    /\ StatusOf(DB, last.req.pid) = "scripted"

(* --------------------------------------------------------------------- *)
AllStatuses == Labels \cup {"archived"}

WithStatus(db, p, st) == [db EXCEPT !.projects[p].status = st]

\* what a request did: its response, its remote calls, and the remote state
\* it left, apart from the status value of project p
Effect(c, p) == [c EXCEPT !.project = NoProject, !.db = WithStatus(c.db, p, "")]

HasGeneratedImage(db, p) == Len(GeneratedImageIds(db, p)) > 0

OkCalls(log, call, id) ==
    Len(SelectSeq(log, LAMBDA e : e.call = call /\ e.id = id /\ e.ok))

AllCalls(log, call, id) ==
    Len(SelectSeq(log, LAMBDA e : e.call = call /\ e.id = id))

\* the ids of the sections of project p, in list order
SectionsOfProject(p) ==
    SelectSeq(Indices(Len(sections)), LAMBDA i : sections[i].project_id = p)

(* C5 as stated: a successful POST /generate/:projectId/images has created *)
(* exactly one generated_output record for each of the n >= 1 sections,    *)
(* returns n images, and leaves the status 'generated'.                    *)
C5_OneImagePerSection ==
    (Answered("POST /generate/:projectId/images") /\ last.code = 200) =>
        LET ids == SectionsOfProject(last.req.pid)
        IN  /\ \A k \in 1..Len(ids) : OkCalls(last.log, "images.create", ids[k]) = 1
            /\ Cardinality(last.retImages) = Len(ids)
            /\ StatusOf(DB, last.req.pid) = "generated"

\* a section got its image: a Buffer came back, upload and create succeeded
Delivered(o) == GenerateImageWithGemini(o.g).buffer /\ o.up /\ o.cr

(* C5 amended: a successful POST /generate/:projectId/images on a project  *)
(* with n >= 1 sections has created one generated_output record (with the  *)
(* section's id) exactly for the sections whose image generation, upload   *)
(* and images.create all succeeded, and none for the others; the response  *)
(* lists exactly the records created (0..n); the status is 'generated'.    *)
C5_ImagePerDeliveredSection ==
    (Answered("POST /generate/:projectId/images") /\ last.code = 200) =>
        LET p == last.req.pid
            ids == SectionsOfProject(p)
            made == SelectSeq(Indices(Len(ids)), LAMBDA k : Delivered(last.req.items[k]))
            base == Len(images) - Len(made)
        IN  /\ Len(ids) >= 1
            /\ \A k \in 1..Len(ids) :
                  OkCalls(last.log, "images.create", ids[k])
                    = IF Delivered(last.req.items[k]) THEN 1 ELSE 0
            /\ base >= 0
            /\ \A j \in 1..Len(made) :
                  images[base + j] =
                    [live |-> TRUE, project_id |-> p, section_id |-> ids[made[j]],
                     type |-> "generated_output", r2_key |-> <<p, "generated", ids[made[j]]>>]
            /\ last.retImages = {base + j : j \in 1..Len(made)}
            /\ StatusOf(DB, p) = "generated"

\* two sections, one image: the other section's generation failed
C5_Witness ==
    /\ Answered("POST /generate/:projectId/images")
    /\ last.code = 200
    /\ Len(SectionsOfProject(last.req.pid)) = 2
    /\ Cardinality(last.retImages) = 1

(* --------------------------------------------------------------------- *)
\* the ids of the generated_output images of project p, in list order
GeneratedOfProject(p) ==
    SelectSeq(Indices(Len(images)),
              LAMBDA i : images[i].live /\ images[i].project_id = p
                         /\ images[i].type = "generated_output")

\* the download got as far as listing the project's images
ListedImages ==
    /\ last.req.user # NoUser
    /\ HasProject(DB, last.req.pid)
    /\ projects[last.req.pid].user_id = last.req.user
    /\ last.req.fail \notin {"getById", "listImages"}

(* C6 as stated: a served download of a project with n >= 1 generated      *)
(* images holds the entries detail_1.png .. detail_n.png and one script.md *)
(* listing every section in order; with no generated image the answer is   *)
(* 400 and there is no archive.                                            *)
C6_ArchiveComplete ==
    Answered("GET /generate/:projectId/download") =>
        LET n == Len(GeneratedOfProject(last.req.pid))
        IN  /\ last.code = 200 =>
                  /\ last.archive.entries = [i \in 1..n |-> i]
                  /\ last.archive.hasScript
                  /\ last.archive.script = SectionsOfProject(last.req.pid)
            /\ (ListedImages /\ n = 0) => (last.code = 400 /\ last.archive = NoArchive)

(* C6 amended: a served download of a project with n >= 1 generated images *)
(* holds the entry detail_i.png exactly for each i-th generated image (in  *)
(* list order, i from 1) whose fetch returned: at most n entries, numbered *)
(* increasingly, with gaps where a fetch failed; and one script.md listing *)
(* every section in order.  With no generated image the answer is 400,     *)
(* nothing is fetched and there is no archive.                             *)
C6_ArchiveOfFetched ==
    Answered("GET /generate/:projectId/download") =>
        LET n == Len(GeneratedOfProject(last.req.pid))
        IN  /\ last.code = 200 =>
                  /\ n >= 1
                  /\ last.archive.finalized
                  /\ last.archive.entries = SelectSeq(Indices(n), LAMBDA i : last.req.items[i])
                  /\ last.archive.hasScript
                  /\ last.archive.script = SectionsOfProject(last.req.pid)
            /\ (ListedImages /\ n = 0) =>
                  /\ last.code = 400
                  /\ last.archive = NoArchive
                  /\ CallsOf(last.log, "fetch") = <<>>

\* two generated images, the first could not be fetched: detail_2.png alone
C6_Witness ==
    /\ Answered("GET /generate/:projectId/download")
    /\ last.code = 200
    /\ Len(GeneratedOfProject(last.req.pid)) = 2
    /\ last.archive.entries = <<2>>

(* --------------------------------------------------------------------- *)
(* C7: no retry.  One invocation of generateImageWithGemini (the one of    *)
(* POST /generate/regenerate/:imageId) calls chat.completions.create at    *)
(* most once and images.generate at most once.                             *)
C7_NoRetry ==
    Answered("POST /generate/regenerate/:imageId") =>
        /\ Len(CallsOf(last.log, "chat.completions.create")) <= 1
        /\ Len(CallsOf(last.log, "images.generate")) <= 1

(* --------------------------------------------------------------------- *)
(* C8: POST /projects by an authenticated user.  With a missing or empty   *)
(* productName: 400 'Product name is required', no call, no project.       *)
(* Otherwise exactly one projects.create call, for the user, with status   *)
(* 'uploaded'; when it returns, the answer is 201 and the new project      *)
(* belongs to the user and is 'uploaded'.                                  *)
C8_CreateProject ==
    (Answered("POST /projects") /\ last.req.user # NoUser) =>
        IF last.req.name \in {NoVal, ""}
        THEN /\ last.code = 400
             /\ last.error = "Product name is required"
             /\ last.log = <<>>
        ELSE /\ Len(last.log) = 1
             /\ last.log[1].call = "projects.create"
             /\ last.log[1].id = last.req.user
             /\ last.log[1].val = "uploaded"
             /\ last.log[1].ok =>
                   /\ last.code = 201
                   /\ last.retProjects = {Len(projects)}
                   /\ projects[Len(projects)] =
                        [live |-> TRUE, user_id |-> last.req.user, status |-> "uploaded",
                         product_name |-> last.req.name]
             /\ ~last.log[1].ok => last.code = 500

C8_Witness ==
    /\ Answered("POST /projects")
    /\ last.code = 201
    /\ projects[Len(projects)].user_id = last.req.user

(* --------------------------------------------------------------------- *)
\* the ids of the competitor_input images of project p, in list order
CompetitorOfProject(p) ==
    SelectSeq(Indices(Len(images)),
              LAMBDA i : images[i].live /\ images[i].project_id = p
                         /\ images[i].type = "competitor_input")

\* the owner's request got as far as the list of the project's images
OwnerListed ==
    /\ last.req.user # NoUser
    /\ HasProject(DB, last.req.pid)
    /\ projects[last.req.pid].user_id = last.req.user
    /\ last.req.fail = "none"

(* C9: POST /scripts/:projectId/extract-text by the owner.  The vision     *)
(* model is called once for each competitor_input image, in list order,    *)
(* and for no other image; at most one competitorText.create is issued per *)
(* image and a record is created exactly for the images whose model call,  *)
(* parse and save succeeded; whatever fails per image, the answer is 200.  *)
(* Without a competitor image: 400, no model call, no record.              *)
C9_ExtractText ==
    (Answered("POST /scripts/:projectId/extract-text") /\ OwnerListed) =>
        LET p == last.req.pid
            ids == CompetitorOfProject(p)
            chats == CallsOf(last.log, "chat.completions.create")
            made == SelectSeq(Indices(Len(ids)), LAMBDA k : last.req.items[k] = "ok")
            base == Len(competitorText) - Len(made)
        IN  IF Len(ids) = 0
            THEN /\ last.code = 400
                 /\ chats = <<>>
                 /\ CallsOf(last.log, "competitorText.create") = <<>>
            ELSE /\ last.code = 200
                 /\ [k \in 1..Len(chats) |-> chats[k].id] = ids
                 /\ Len(CallsOf(last.log, "competitorText.create")) <= Len(ids)
                 /\ \A k \in 1..Len(ids) :
                       /\ AllCalls(last.log, "competitorText.create", ids[k]) <= 1
                       /\ OkCalls(last.log, "competitorText.create", ids[k])
                            = IF last.req.items[k] = "ok" THEN 1 ELSE 0
                 /\ base >= 0
                 /\ \A j \in 1..Len(made) : competitorText[base + j].project_id = p

\* two competitor images: the first one's model call throws, the second is saved
C9_Witness ==
    /\ Answered("POST /scripts/:projectId/extract-text")
    /\ last.code = 200
    /\ Len(CompetitorOfProject(last.req.pid)) = 2
    /\ last.req.items[1] = "throw"
    /\ OkCalls(last.log, "competitorText.create", CompetitorOfProject(last.req.pid)[2]) = 1

(* --------------------------------------------------------------------- *)
\* log[1..i-1] holds a successful call `call`
OkBefore(log, i, call) == \E j \in 1..(i - 1) : log[j].call = call /\ log[j].ok

\* the number of calls `call` in log[1..i-1]
CountBefore(log, i, call) == Len(CallsOf(SubSeq(log, 1, i - 1), call))

\* the write log[i] of 'scripted', 'generated' or 'completed' follows its work
FollowsWork(i) ==
    LET e == last.log[i]
        p == last.req.pid
    IN  /\ e.val = "scripted" => OkBefore(last.log, i, "sections.batchCreate")
        /\ e.val = "generated" =>
              /\ last.route = "POST /generate/:projectId/images"
              /\ Len(SectionsOfProject(p)) >= 1
              /\ CountBefore(last.log, i, "chat.completions.create")
                   = Len(SectionsOfProject(p))
        /\ e.val = "completed" =>
              /\ last.route = "GET /generate/:projectId/download"
              /\ Len(GeneratedOfProject(p)) >= 1
              /\ CountBefore(last.log, i, "fetch") = Len(GeneratedOfProject(p))
              /\ OkBefore(last.log, i, "archive.finalize")

(* C10 as stated: every write of 'scripted' comes after a successful       *)
(* sections.batchCreate of the same request, every write of 'generated'    *)
(* after the loop over all sections, every write of 'completed' in a       *)
(* download that found a generated image, after the archive was finalized. *)
C10_StatusAfterWork ==
    last.route # "none" =>
        \A i \in 1..Len(last.log) :
            last.log[i].call = "projects.update" => FollowsWork(i)

\* the catch block of POST /generate/:projectId/images: the last call of a
\* request that ends in 500 after one of its calls failed
ErrorPathWrite(i) ==
    /\ last.route = "POST /generate/:projectId/images"
    /\ last.code = 500
    /\ i = Len(last.log)
    /\ last.log[i].val = "scripted"
    /\ \E j \in 1..(i - 1) : ~last.log[j].ok

(* C10 amended: apart from PUT /projects/:id, which writes the status its  *)
(* body carries, and apart from the error path of POST                     *)
(* /generate/:projectId/images, which writes 'scripted' after a failed     *)
(* call, 'scripted' is written only after a successful sections.batchCreate*)
(* of the same request, 'generated' only after the loop has visited every  *)
(* section, 'completed' only by a download that found a generated image,   *)
(* visited them all and finalized the archive.                             *)
C10_StatusAfterWorkOrError ==
    (last.route \notin {"none", "PUT /projects/:id"}) =>
        \A i \in 1..Len(last.log) :
            last.log[i].call = "projects.update" => (FollowsWork(i) \/ ErrorPathWrite(i))

\* a script generation that saved its sections and then wrote 'scripted'
C10_Witness ==
    /\ Answered("POST /scripts/:projectId/generate")
    /\ last.code = 200
    /\ StatusWrites(last.log) = <<"scripting", "scripted">>
    /\ OkBefore(last.log, Len(last.log), "sections.batchCreate")

(* --------------------------------------------------------------------- *)
(* C11: a POST /scripts/:projectId/generate that has stored 'scripting'    *)
(* ends, whatever its response, with the status 'scripted' or with the     *)
(* status the project had before the request.                              *)
C11_NeverStuckScripting ==
    [][ ( /\ last'.route = "POST /scripts/:projectId/generate"
          /\ \E i \in 1..Len(last'.log) :
                /\ last'.log[i].call = "projects.update"
                /\ last'.log[i].val = "scripting"
                /\ last'.log[i].ok )
        => projects'[last'.req.pid].status
             \in {"scripted", projects[last'.req.pid].status} ]_vars

(* --------------------------------------------------------------------- *)
(* C12: POST /generate/:projectId/images answered 400 (the project has no  *)
(* script sections) leaves the project's status as it was and creates no   *)
(* image record and no stored object.                                      *)
C12_NoSectionsNoChange ==
    [][ (last'.route = "POST /generate/:projectId/images" /\ last'.code = 400) =>
          /\ last'.error = "No script sections found. Please generate script first."
          /\ projects' = projects
          /\ images' = images
          /\ CallsOf(last'.log, "storage.upload") = <<>> ]_vars

(* --------------------------------------------------------------------- *)
(* C13: POST /generate/:projectId/images answered 500 leaves the project   *)
(* with the status it had immediately before the request, whatever that    *)
(* status was.                                                             *)
C13_ErrorRestoresStatus ==
    [][ ( /\ last'.route = "POST /generate/:projectId/images"
          /\ last'.code = 500
          /\ HasProject(DB, last'.req.pid) )
        => projects'[last'.req.pid].status = projects[last'.req.pid].status ]_vars

(* --------------------------------------------------------------------- *)
\* the routes that write the workflow status
WorkflowRoutes ==
    {"POST /generate/:projectId/images", "POST /scripts/:projectId/generate",
     "GET /generate/:projectId/download"}

(* C14: a workflow request by a user who does not own the project issues   *)
(* no projects.update for that project, whatever the remote calls return   *)
(* or throw.                                                               *)
C14_StatusWrittenForOwnerOnly ==
    ( /\ last.route \in WorkflowRoutes
      /\ HasProject(DB, last.req.pid)
      /\ projects[last.req.pid].user_id # last.req.user )
    => \A i \in 1..Len(last.log) :
          ~(last.log[i].call = "projects.update" /\ last.log[i].id = last.req.pid)

(* --------------------------------------------------------------------- *)
\* the number of live image records of project p in table t
ImageCount(t, p) == Cardinality({i \in 1..Len(t) : t[i].live /\ t[i].project_id = p})

(* C15: POST /generate/regenerate/:imageId.  After an error response (403, *)
(* 404, 500) the old image record still exists; after a success the old    *)
(* record is gone, one new generated_output record of the same project and *)
(* section exists and the project has as many image records as before.     *)
C15_ReplaceWithoutLoss ==
    [][ (last'.route = "POST /generate/regenerate/:imageId" /\ HasImage(DB, last'.req.id)) =>
          LET r == last'.req
          IN  /\ last'.code \in {403, 404, 500} => images'[r.id] = images[r.id]
              /\ last'.code = 200 =>
                    /\ ~images'[r.id].live
                    /\ Len(images') = Len(images) + 1
                    /\ images'[Len(images')].project_id = r.pid
                    /\ images'[Len(images')].section_id = r.sid
                    /\ images'[Len(images')].type = "generated_output"
                    /\ ImageCount(images', r.pid) = ImageCount(images, r.pid) ]_vars

(* --------------------------------------------------------------------- *)
\* log[i] is an images.create issued right after a storage.upload that
\* returned, with no other images.create in between
AfterUpload(log, i) ==
    \E j \in 1..(i - 1) :
        /\ log[j].call = "storage.upload" /\ log[j].ok
        /\ \A k \in (j + 1)..(i - 1) :
              log[k].call \notin {"storage.upload", "images.create"}

(* C16: every images.create of a request follows a storage.upload of the   *)
(* same request that returned; and the type segment of an uploaded file's  *)
(* key projects/<projectId>/<type>/... equals the type stored in its       *)
(* record.                                                                 *)
C16_RecordMatchesObject ==
    /\ \A i \in 1..Len(last.log) :
          last.log[i].call = "images.create" => AfterUpload(last.log, i)
    /\ \A i \in 1..Len(images) :
          (images[i].live /\ images[i].type # "generated_output")
            => images[i].r2_key[2] = images[i].type

(* --------------------------------------------------------------------- *)
\* slot s issues users.create in this step
CallsCreate(s) == ~regs[s].called /\ regs'[s].called

(* C17: registration never creates two users for one email.  users.create  *)
(* is never called for an email that already has a user, nor for an email  *)
(* for which a register request running at the same time has already       *)
(* called it; no two user rows carry the same email.                       *)
C17_OneUserPerEmail ==
    [][ /\ \A s \in RegSlots :
              CallsCreate(s) =>
                /\ FindUser(users, regs[s].email) = 0
                /\ \A t \in regs[s].peers :
                      ~(regs[t].email = regs[s].email /\ regs[t].called)
        /\ \A i, j \in 1..Len(users') : (users'[i].email = users'[j].email) => i = j ]_vars

(* --------------------------------------------------------------------- *)
(* C18: POST /login returns a token only when a user row exists for the    *)
(* email and bcrypt.compare accepts the password; a missing email or       *)
(* password gives 400; an unknown email and a wrong password both give 401 *)
(* 'Invalid credentials' with the same body; no response of /register,     *)
(* /login or /me carries the password hash.  (A lookup that failed for a   *)
(* reason other than the email being unknown is left aside.)               *)
C18_TokenAfterCredentials ==
    /\ auth.route = "POST /auth/login" =>
          LET id == FindUser(users, auth.email)
          IN  /\ auth.body.token =>
                    (id # 0 /\ users[id].password_hash = <<"bcrypt", auth.password>>)
              /\ (auth.email \in {NoVal, ""} \/ auth.password \in {NoVal, ""})
                    => auth.code = 400
              /\ ( \/ auth.lookup \in {"null", "notfound"}
                    \/ (auth.lookup = "row"
                          /\ users[id].password_hash # <<"bcrypt", auth.password>>) )
                    => (auth.code = 401 /\ auth.error = "Invalid credentials"
                        /\ auth.body = NoBody)
    /\ "password_hash" \notin auth.body.fields
    /\ \A s \in RegSlots : "password_hash" \notin regs[s].body.fields

=============================================================================
